---- MODULE Spec2Model ----
(***************************************************************************)
(* Model of omnomnomicon's interactive structure updater (src/updater.rs). *)
(*                                                                         *)
(* A live value `item` is bound to a label by updater_for; the returned    *)
(* closure parses command strings into deltas (Updater::enter) and the     *)
(* caller applies a delta in a separate step (Updater::apply).             *)
(*                                                                         *)
(* Command strings are sequences of one-character strings, and a cursor is *)
(* the number of characters consumed so far.  The combinators of           *)
(* crate::prelude are not part of updater.rs; they are modelled from their *)
(* documented contract.                                                    *)
(***************************************************************************)
EXTENDS Integers, Sequences, FiniteSets, TLC

VARIABLES
    root,            \* which typed value updater_for was given (fixes the Rust type)
    overflowChecks,  \* build profile: TRUE = overflow checks on (debug), FALSE = wrapping (release)
    item,            \* the live value
    input,           \* the last command string handed to the closure
    res,             \* outcome of the last enter, until it is applied or replaced
    step,            \* the last operation: "init", "enter", "apply", "direct", "set"
    prev,            \* the value before the last operation
    delta,           \* the delta handed to the last apply
    applied          \* result of the last apply

vars == <<root, overflowChecks, item, input, res, step, prev, delta, applied>>

----------------------------------------------------------------------------
(* Bounds and program constants *)

\* Width of usize in the model (the program's usize is 64 bit).
UsizeBits == 16

UsizeModulus == 2 ^ UsizeBits

\* lookup_key(table, 100)
MaxCandidates == 100

\* Number of keys of the large key type, one more than the candidate cap.
BigKeys == 101

\* Number of keys of the small key type.
SmallKeys == 3

----------------------------------------------------------------------------
(* Characters and text *)

Digits == <<"0", "1", "2", "3", "4", "5", "6", "7", "8", "9">>

IsDigit(c) == \E d \in 1..10 : Digits[d] = c

DigitVal(c) == (CHOOSE d \in 1..10 : Digits[d] = c) - 1

IsSpace(c) == c = " "

\* Is `text` a prefix of s at offset pos (str::starts_with)?
StartsWith(s, pos, text) ==
    /\ pos + Len(text) <= Len(s)
    /\ \A i \in 1..Len(text) : s[pos + i] = text[i]

\* Length of the longest run of characters satisfying P at offset pos.
RECURSIVE DigitRun(_, _)
DigitRun(s, pos) ==
    IF pos < Len(s) /\ IsDigit(s[pos + 1]) THEN 1 + DigitRun(s, pos + 1) ELSE 0

RECURSIVE SpaceRun(_, _)
SpaceRun(s, pos) ==
    IF pos < Len(s) /\ IsSpace(s[pos + 1]) THEN 1 + SpaceRun(s, pos + 1) ELSE 0

RECURSIVE TokenRun(_, _)
TokenRun(s, pos) ==
    IF pos < Len(s) /\ ~IsSpace(s[pos + 1]) THEN 1 + TokenRun(s, pos + 1) ELSE 0

\* Decimal value of the n digits of s that start at offset pos.
RECURSIVE DecValue(_, _, _)
DecValue(s, pos, n) ==
    IF n = 0 THEN 0 ELSE 10 * DecValue(s, pos, n - 1) + DigitVal(s[pos + n])

\* Display of a natural number / an integer ({} and {:?} formatting).
RECURSIVE FmtNat(_)
FmtNat(n) ==
    IF n < 10 THEN <<Digits[n + 1]>> ELSE FmtNat(n \div 10) \o <<Digits[(n % 10) + 1]>>

FmtInt(n) == IF n < 0 THEN <<"-">> \o FmtNat(0 - n) ELSE FmtNat(n)

\* format!("{:?}", k) of the key type: variant k prints as K<k>.
KeyName(k) == <<"K">> \o FmtNat(k)

----------------------------------------------------------------------------
(* Values and deltas *)

Num(n) == [kind |-> "num", n |-> n]

None == [kind |-> "opt", some |-> FALSE, n |-> 0]

Some(n) == [kind |-> "opt", some |-> TRUE, n |-> n]

Arr(elems) == [kind |-> "arr", elems |-> elems]

Map(entries) == [kind |-> "map", entries |-> entries]

Foo(foo, bar) == [kind |-> "struct", foo |-> foo, bar |-> bar]

\* (usize, T::Updater)
Ix(key, d) == [kind |-> "ix", key |-> key, d |-> d]

\* (K, V::Updater)
Key(key, d) == [kind |-> "key", key |-> key, d |-> d]

\* FooUpdater::Foo(n) / FooUpdater::Bar(n)
Field(field, n) == [kind |-> "field", field |-> field, n |-> n]

NoVal == [kind |-> "none"]

----------------------------------------------------------------------------
(* Parse outcomes: Result<'a, T> *)

NoMsg == [m |-> "none"]

Ok(pos, val) == [kind |-> "ok", pos |-> pos, val |-> val, msg |-> NoMsg, hint |-> NoMsg, depth |-> 0]

\* Terminate::fail(input, message)
Fail(pos, msg) == [kind |-> "fail", pos |-> pos, val |-> NoVal, msg |-> msg, hint |-> NoMsg, depth |-> 0]

\* The call did not return: the thread panicked.
Panicked == [kind |-> "panic", pos |-> 0, val |-> NoVal, msg |-> NoMsg, hint |-> NoMsg, depth |-> 0]

NoRes == [kind |-> "none", pos |-> 0, val |-> NoVal, msg |-> NoMsg, hint |-> NoMsg, depth |-> 0]

\* One more enter invocation took part in producing the outcome.
Entered(out) == [out EXCEPT !.depth = @ + 1]

----------------------------------------------------------------------------
(* Combinators of crate::prelude *)

\* literal(text)
Literal(text, s, pos) ==
    IF StartsWith(s, pos, text)
    THEN Ok(pos + Len(text), NoVal)
    ELSE Fail(pos, [m |-> "expected", text |-> text])

\* Output::bind_space(mandatory, _): the whitespace it skips before the next parser.
BindSpace(mandatory, s, pos) ==
    LET n == SpaceRun(s, pos)
    IN IF mandatory /\ n = 0
       THEN Fail(pos, [m |-> "space"])
       ELSE Ok(pos + n, NoVal)

\* number::<usize>
NumberUsize(s, pos) ==
    LET n == DigitRun(s, pos)
    IN IF n = 0 \/ n > 6
       THEN Fail(pos, [m |-> "number"])
       ELSE IF DecValue(s, pos, n) >= UsizeModulus
            THEN Fail(pos, [m |-> "number"])
            ELSE Ok(pos + n, DecValue(s, pos, n))

\* <T as Parser>::parse of the leaf type: a signed decimal number.
LeafParse(s, pos) ==
    LET neg == pos < Len(s) /\ s[pos + 1] = "-"
        at  == IF neg THEN pos + 1 ELSE pos
        n   == DigitRun(s, at)
    IN IF n = 0 \/ n > 6
       THEN Fail(pos, [m |-> "number"])
       ELSE Ok(at + n, IF neg THEN 0 - DecValue(s, at, n) ELSE DecValue(s, at, n))

\* with_hint(hint, parser): the hint is attached to a failure that has none.
WithHint(hint, out) ==
    IF out.kind = "fail" /\ out.hint = NoMsg THEN [out EXCEPT !.hint = hint] ELSE out

\* The first n elements of a sequence.
Take(seq, n) == SubSeq(seq, 1, IF n < Len(seq) THEN n ELSE Len(seq))

\* lookup_key(table, max): table is a sequence of <<key, display name>>.
LookupKey(table, max, s, pos) ==
    LET n    == TokenRun(s, pos)
        tok  == SubSeq(s, pos + 1, pos + n)
        hits == {i \in 1..Len(table) : table[i][2] = tok}
    IN IF hits # {}
       THEN Ok(pos + n, table[CHOOSE i \in hits : \A j \in hits : i <= j][1])
       ELSE Fail(pos, [m |-> "key", candidates |-> Take([i \in 1..Len(table) |-> table[i][2]], max)])

----------------------------------------------------------------------------
(* Texts *)

kSome == <<"s", "o", "m", "e">>

kNone == <<"n", "o", "n", "e">>

kFoo == <<"f", "o", "o">>

kBar == <<"b", "a", "r">>

kArr == <<"a", "r", "r">>

kMap == <<"m", "a", "p">>

kOpt == <<"o", "p", "t">>

SP == <<" ">>

DOT == <<".">>

----------------------------------------------------------------------------
(* Updater::enter *)

RECURSIVE ValueEnter(_, _, _, _)

\* format!("cur: {:?}", self)
CurHint(self) == [m |-> "cur", v |-> self]

\* impl<T: Parser + Debug> Updater for T :: enter
ScalarEnter(self, entry, s, pos) ==
    LET p == LeafParse(s, pos)
    IN Entered(WithHint(CurHint(self),
                        IF p.kind = "ok" THEN Ok(p.pos, Num(p.val)) ELSE p))

\* tagged("some", fmap(Some, T::parse))
Enabled(s, pos) ==
    LET l == Literal(kSome, s, pos)
    IN IF l.kind # "ok" THEN l
       ELSE LET sp == BindSpace(TRUE, s, l.pos)
            IN IF sp.kind # "ok" THEN sp
               ELSE LET p == LeafParse(s, sp.pos)
                    IN IF p.kind = "ok" THEN Ok(p.pos, Some(p.val)) ELSE p

\* tag(None, "none")
Disabled(s, pos) ==
    LET l == Literal(kNone, s, pos)
    IN IF l.kind = "ok" THEN Ok(l.pos, None) ELSE l

\* or(first, second): second is tried when first failed without consuming input.
Or(first, second, pos) ==
    IF first.kind = "ok" THEN first
    ELSE IF first.pos # pos THEN first
    ELSE IF second.kind = "ok" THEN second
    ELSE Fail(second.pos, [m |-> "or", a |-> first.msg, b |-> second.msg])

\* impl Updater for Option<T> :: enter
OptionEnter(self, entry, s, pos) ==
    Entered(WithHint(CurHint(self), Or(Enabled(s, pos), Disabled(s, pos), pos)))

\* N - 1 on usize: the subtraction overflows for N = 0.
IndexUpper(N) == (N - 1) % UsizeModulus

\* with_hint(label_ix, number::<usize>): label_ix formats N - 1 when number fails.
ParseIx(N, s, pos) ==
    LET p == NumberUsize(s, pos)
    IN IF p.kind = "fail" /\ N = 0 /\ overflowChecks
       THEN Panicked
       ELSE WithHint([m |-> "arr index", lo |-> 0, hi |-> IndexUpper(N)], p)

\* impl Updater for [T; N] :: enter
ArrayEnter(self, entry, s, pos) ==
    LET N == Len(self.elems)
        l == Literal(entry, s, pos)
    IN Entered(
       IF l.kind # "ok" THEN l
       ELSE LET key_input == l.pos
                sp == BindSpace(TRUE, s, l.pos)
            IN IF sp.kind # "ok" THEN sp
               ELSE LET k == ParseIx(N, s, sp.pos)
                    IN IF k.kind # "ok" THEN k
                       ELSE IF k.val >= N
                       THEN Fail(key_input, [m |-> "Index too big", lo |-> 0, hi |-> N])
                       ELSE LET sp2 == BindSpace(TRUE, s, k.pos)
                            IN IF sp2.kind # "ok" THEN sp2
                               ELSE LET c == ValueEnter(self.elems[k.val + 1], DOT, s, sp2.pos)
                                    IN IF c.kind = "ok"
                                       THEN [c EXCEPT !.val = Ix(k.val, c.val)]
                                       ELSE c)

\* Faulty table: every key is paired with the display name of its predecessor.
MapTableShifted(self) ==
    LET n == Cardinality(DOMAIN self.entries)
    IN [k \in 1..n |-> <<k, KeyName(k - 1)>>]

\* self.iter().map(|(k, _)| (k, format!("{:?}", k)))
MapTable(self) ==
    LET n == Cardinality(DOMAIN self.entries)
    IN [k \in 1..n |-> <<k, KeyName(k)>>]

\* impl Updater for enum_map::EnumMap<K, V> :: enter
MapEnter(self, entry, s, pos) ==
    LET l == Literal(entry, s, pos)
    IN Entered(
       IF l.kind # "ok" THEN l
       ELSE LET sp == BindSpace(TRUE, s, l.pos)
            IN IF sp.kind # "ok" THEN sp
               ELSE LET k == LookupKey(MapTable(self), MaxCandidates, s, sp.pos)
                    IN IF k.kind # "ok" THEN k
                       ELSE LET sp2 == BindSpace(TRUE, s, k.pos)
                            IN IF sp2.kind # "ok" THEN sp2
                               ELSE LET c == ValueEnter(self.entries[k.val], DOT, s, sp2.pos)
                                    IN IF c.kind = "ok"
                                       THEN [c EXCEPT !.val = Key(k.val, c.val)]
                                       ELSE c)

\* #[derive(Updater)] struct Foo :: enter
StructEnter(self, entry, s, pos) ==
    LET l == Literal(entry, s, pos)
    IN Entered(
       IF l.kind # "ok" THEN l
       ELSE LET sp == BindSpace(TRUE, s, l.pos)
            IN IF sp.kind # "ok" THEN sp
               ELSE LET f == Or(Literal(kFoo, s, sp.pos), Literal(kBar, s, sp.pos), sp.pos)
                        name == IF StartsWith(s, sp.pos, kFoo) THEN "foo" ELSE "bar"
                    IN IF f.kind # "ok" THEN f
                       ELSE LET sp2 == BindSpace(TRUE, s, f.pos)
                            IN IF sp2.kind # "ok" THEN sp2
                               ELSE LET c == ScalarEnter(Num(self[name]), name, s, sp2.pos)
                                    IN IF c.kind = "ok"
                                       THEN [c EXCEPT !.val = Field(name, c.val.n)]
                                       ELSE c)

\* Updater::enter, dispatched on the type of self.
ValueEnter(self, entry, s, pos) ==
    CASE self.kind = "num"    -> ScalarEnter(self, entry, s, pos)
      [] self.kind = "opt"    -> OptionEnter(self, entry, s, pos)
      [] self.kind = "arr"    -> ArrayEnter(self, entry, s, pos)
      [] self.kind = "map"    -> MapEnter(self, entry, s, pos)
      [] self.kind = "struct" -> StructEnter(self, entry, s, pos)

\* updater_for(item, label): the closure |input| Updater::enter(item, label, input)
UpdaterFor(self, entry, s) == ValueEnter(self, entry, s, 0)

----------------------------------------------------------------------------
(* Updater::apply *)

ApplyOk == [kind |-> "ok", msg |-> NoMsg]

ApplyErr(msg) == [kind |-> "err", msg |-> msg]

\* The call did not return: the thread panicked.
ApplyPanic == [kind |-> "panic", msg |-> NoMsg]

NoApply == [kind |-> "none", msg |-> NoMsg]

\* foo::ten_percent: (orig - new) * 100.0 / orig within -10.0..=10.0.
\* A zero orig gives NaN or an infinity, which the range does not contain.
ten_percent(orig, new) ==
    LET num == (orig - new) * 100
        within == IF orig > 0 THEN -10 * orig <= num /\ num <= 10 * orig
                  ELSE IF orig < 0 THEN 10 * orig <= num /\ num <= -10 * orig
                  ELSE FALSE
    IN IF within THEN ApplyOk ELSE ApplyErr([m |-> "too large", orig |-> orig, new |-> new])

\* positive
positive(orig, new) ==
    IF new > 0 THEN ApplyOk ELSE ApplyErr([m |-> "must be positive"])

\* Faulty check list: the second check of bar is lost.
FieldChecksFirstOnly(field) == <<"ten_percent">>

\* #[om(check(..))] attributes of struct Foo, in declaration order.
FieldChecks(field) ==
    IF field = "foo" THEN <<"ten_percent">> ELSE <<"ten_percent", "positive">>

RunCheck(name, orig, new) ==
    IF name = "ten_percent" THEN ten_percent(orig, new) ELSE positive(orig, new)

\* The checks of a field, short-circuiting on the first rejection.
RECURSIVE RunChecks(_, _, _)
RunChecks(checks, orig, new) ==
    IF checks = <<>> THEN ApplyOk
    ELSE LET r == RunCheck(Head(checks), orig, new)
         IN IF r.kind # "ok" THEN r ELSE RunChecks(Tail(checks), orig, new)

RECURSIVE ValueApply(_, _)

\* impl<T: Parser + Debug> Updater for T :: apply
ScalarApply(self, updater) == [res |-> ApplyOk, v |-> updater]

\* Faulty apply of an optional: a None delta is taken to mean "no change".
OptionApplyKeep(self, updater) ==
    [res |-> ApplyOk, v |-> IF updater.some THEN updater ELSE self]

\* impl Updater for Option<T> :: apply
OptionApply(self, updater) == [res |-> ApplyOk, v |-> updater]

\* Faulty apply of an array: the child delta always goes to the first element.
ArrayApplyFirst(self, updater) ==
    IF updater.key >= Len(self.elems)
    THEN [res |-> ApplyPanic, v |-> self]
    ELSE LET r == ValueApply(self.elems[1], updater.d)
         IN [res |-> r.res, v |-> Arr([self.elems EXCEPT ![1] = r.v])]

\* Faulty apply of an array: the element's result is dropped.
ArrayApplySwallow(self, updater) ==
    IF updater.key >= Len(self.elems)
    THEN [res |-> ApplyPanic, v |-> self]
    ELSE LET r == ValueApply(self.elems[updater.key + 1], updater.d)
         IN [res |-> ApplyOk,
             v   |-> Arr([self.elems EXCEPT ![updater.key + 1] = r.v])]

\* impl Updater for [T; N] :: apply; self[i] panics for i >= N.
ArrayApply(self, updater) ==
    IF updater.key >= Len(self.elems)
    THEN [res |-> ApplyPanic, v |-> self]
    ELSE LET r == ValueApply(self.elems[updater.key + 1], updater.d)
         IN [res |-> r.res,
             v   |-> Arr([self.elems EXCEPT ![updater.key + 1] = r.v])]

\* impl Updater for enum_map::EnumMap<K, V> :: apply
MapApply(self, updater) ==
    LET r == ValueApply(self.entries[updater.key], updater.d)
    IN [res |-> r.res,
        v   |-> Map([self.entries EXCEPT ![updater.key] = r.v])]

\* #[derive(Updater)] struct Foo :: apply
StructApply(self, updater) ==
    LET f == updater.field
        r == RunChecks(FieldChecks(f), self[f], updater.n)
    IN IF r.kind = "ok"
       THEN [res |-> ApplyOk, v |-> [self EXCEPT ![f] = updater.n]]
       ELSE [res |-> r, v |-> self]

\* Updater::apply, dispatched on the type of self.
ValueApply(self, updater) ==
    CASE self.kind = "num"    -> ScalarApply(self, updater)
      [] self.kind = "opt"    -> OptionApply(self, updater)
      [] self.kind = "arr"    -> ArrayApply(self, updater)
      [] self.kind = "map"    -> MapApply(self, updater)
      [] self.kind = "struct" -> StructApply(self, updater)

----------------------------------------------------------------------------
(* The values updater_for is given, and the inputs of the model *)

\* Size of the array of scalars.
ArrLen == 3

\* Number of rows of the nested array (each row holds two scalars).
NestLen == 2

\* Leaf values typed in commands and carried by directly built deltas.
Xs == {7, -42}

\* Field values carried by deltas for Foo (test_updater uses 95, 65 and -99).
FooXs == {95, 65, -99}

RootNames == {"arr", "arr0", "nested", "opt", "map", "bigmap", "foo", "arrfoo", "mapfoo"}

\* The label given to updater_for.
Label(r) ==
    CASE r \in {"arr", "arr0", "nested", "arrfoo"} -> kArr
      [] r \in {"map", "bigmap", "mapfoo"} -> kMap
      [] r = "opt" -> kOpt
      [] r = "foo" -> kFoo

\* The values the item starts from.
Initial(r) ==
    CASE r = "arr"    -> {Arr([i \in 1..ArrLen |-> Num(i)])}
      [] r = "arr0"   -> {Arr(<<>>)}
      [] r = "nested" -> {Arr([i \in 1..NestLen |-> Arr([j \in 1..2 |-> Num(10 * i + j)])])}
      [] r = "opt"    -> {None, Some(5)}
      [] r = "map"    -> {Map([k \in 1..SmallKeys |-> Num(k)])}
      [] r = "bigmap" -> {Map([k \in 1..BigKeys |-> Num(0)])}
      [] r = "foo"    -> {Foo(100, 100)}
      [] r = "arrfoo" -> {Arr(<<Foo(100, 100), Foo(100, -100)>>)}
      [] r = "mapfoo" -> {Map([k \in 1..2 |-> Foo(100, 100 * k)])}

FooDeltas == {Field(f, n) : f \in {"foo", "bar"}, n \in FooXs}

\* Deltas of the item's Updater type that a caller can build without enter.
DirectDeltas(r) ==
    CASE r = "arr"    -> {Ix(i, Num(x)) : i \in 0..(ArrLen + 1), x \in Xs}
      [] r = "arr0"   -> {Ix(i, Num(x)) : i \in 0..1, x \in Xs}
      [] r = "nested" -> {Ix(i, Ix(j, Num(7))) : i \in 0..NestLen, j \in 0..2}
      [] r = "opt"    -> {None} \cup {Some(x) : x \in Xs}
      [] r = "map"    -> {Key(k, Num(x)) : k \in 1..SmallKeys, x \in Xs}
      [] r = "bigmap" -> {Key(k, Num(7)) : k \in {1, BigKeys}}
      [] r = "foo"    -> FooDeltas
      [] r = "arrfoo" -> {Ix(i, d) : i \in 0..2, d \in FooDeltas}
      [] r = "mapfoo" -> {Key(k, d) : k \in 1..2, d \in FooDeltas}

\* The command that sets the leaf at `path` of value v to x, for the entry label.
RECURSIVE CommandFor(_, _, _, _)
CommandFor(entry, v, path, x) ==
    CASE v.kind = "num" -> FmtInt(x)
      [] v.kind = "arr" ->
            entry \o SP \o FmtNat(path[1]) \o SP
                  \o CommandFor(DOT, v.elems[path[1] + 1], Tail(path), x)
      [] v.kind = "map" ->
            entry \o SP \o KeyName(path[1]) \o SP
                  \o CommandFor(DOT, v.entries[path[1]], Tail(path), x)

\* The leaf paths of a value: array indices and map keys from the root.
RECURSIVE Paths(_)
Paths(v) ==
    CASE v.kind = "arr" ->
            UNION {{<<i - 1>> \o p : p \in Paths(v.elems[i])} : i \in 1..Len(v.elems)}
      [] v.kind = "map" ->
            UNION {{<<k>> \o p : p \in Paths(v.entries[k])} : k \in DOMAIN v.entries}
      [] OTHER -> {<<>>}

\* The element of v at a path.
RECURSIVE Get(_, _)
Get(v, path) ==
    IF path = <<>> THEN v
    ELSE IF v.kind = "arr" THEN Get(v.elems[path[1] + 1], Tail(path))
    ELSE Get(v.entries[path[1]], Tail(path))

\* Words joined by single spaces.
RECURSIVE Words(_)
Words(ws) ==
    IF Len(ws) = 1 THEN ws[1] ELSE ws[1] \o SP \o Words(Tail(ws))

\* Well-formed commands for every leaf path of the initial values of a root.
PathCommands(r, xs) ==
    UNION {{CommandFor(Label(r), v, p, x) : p \in Paths(v), x \in xs} : v \in Initial(r)}

\* Commands for the array of scalars: in range, past the end, with a second
\* space before the index, with an index that is no usize, or stopping early.
ArrCommands ==
    PathCommands("arr", Xs)
    \cup {Words(<<kArr, FmtNat(i), FmtInt(7)>>) : i \in {ArrLen, ArrLen + 1}}
    \cup {kArr \o SP \o SP \o FmtNat(i) \o SP \o FmtInt(7) : i \in {1, ArrLen}}
    \cup { Words(<<kArr, <<"x">>, FmtInt(7)>>),
           Words(<<kArr, <<"-", "1">>, FmtInt(7)>>),
           Words(<<kArr, FmtNat(UsizeModulus + 5), FmtInt(7)>>),
           Words(<<kArr, <<"1", "x">>, FmtInt(7)>>),
           Words(<<kArr \o <<"1">>, FmtInt(7)>>),
           Words(<<<<"a", "r">>, <<"1">>, FmtInt(7)>>),
           Words(<<kArr, <<"0">>, <<"x">>>>),
           Words(<<kArr, <<"0">>>>),
           kArr \o SP,
           kArr,
           <<>> }

NestedCommands ==
    PathCommands("nested", {7})
    \cup {Words(<<kArr, FmtNat(i), DOT, FmtNat(j), FmtInt(7)>>) :
              i \in {0, NestLen}, j \in {0, 2, 3}}
    \cup { Words(<<kArr, <<"0">>, <<"0">>, FmtInt(7)>>),
           Words(<<kArr, <<"0">>, DOT, <<"x">>, FmtInt(7)>>),
           Words(<<kArr, <<"0">>, FmtInt(7)>>) }

OptionCommands ==
    { Words(<<kSome, FmtInt(7)>>),
      Words(<<kSome, FmtInt(-42)>>),
      kNone,
      kNone \o <<"x">>,
      Words(<<kNone, FmtInt(7)>>),
      Words(<<kSome \o <<"x">>, FmtInt(7)>>),
      Words(<<kSome, <<"x">>>>),
      kSome \o FmtInt(7),
      kSome,
      <<"s", "o">>,
      <<"n", "o", "n">>,
      Words(<<kOpt, kSome, FmtInt(7)>>),
      Words(<<<<"o", "f", "f">>, FmtInt(7)>>),
      FmtInt(7),
      <<>> }

MapCommands ==
    PathCommands("map", Xs)
    \cup { Words(<<kMap, KeyName(BigKeys), FmtInt(7)>>),
           Words(<<kMap, KeyName(BigKeys + 1), FmtInt(7)>>),
           Words(<<kMap, KeyName(0), FmtInt(7)>>),
           Words(<<kMap, <<"k", "1">>, FmtInt(7)>>),
           Words(<<kMap, KeyName(1) \o <<"x">>, FmtInt(7)>>),
           Words(<<kMap, <<"K">>, FmtInt(7)>>),
           Words(<<kMap, KeyName(1)>>),
           Words(<<kArr, KeyName(1), FmtInt(7)>>),
           kMap }

FooCommands ==
    {Words(<<kFoo, f, FmtInt(n)>>) : f \in {kFoo, kBar}, n \in FooXs}
    \cup { Words(<<kFoo, <<"b", "a", "z">>, FmtInt(95)>>),
           Words(<<kFoo, DOT, kFoo, FmtInt(95)>>),
           Words(<<kFoo, kFoo>>) }

ArrFooCommands ==
    {Words(<<kArr, FmtNat(i), DOT, f, FmtInt(n)>>) :
         i \in 0..2, f \in {kFoo, kBar}, n \in {95, -99}}
    \cup {Words(<<kArr, FmtNat(0), kFoo, FmtInt(95)>>)}

MapFooCommands ==
    {Words(<<kMap, KeyName(k), DOT, f, FmtInt(n)>>) :
         k \in 1..3, f \in {kFoo, kBar}, n \in {95, -99}}

\* The command strings handed to the closure of a root.
Commands(r) ==
    CASE r \in {"arr", "arr0"} -> ArrCommands
      [] r = "nested" -> NestedCommands
      [] r = "opt" -> OptionCommands
      [] r \in {"map", "bigmap"} -> MapCommands
      [] r = "foo" -> FooCommands
      [] r = "arrfoo" -> ArrFooCommands
      [] r = "mapfoo" -> MapFooCommands

----------------------------------------------------------------------------
(* The state machine *)

\* A panic ends the program.
Aborted == res.kind = "panic" \/ applied.kind = "panic"

Init ==
    /\ root \in RootNames
    /\ overflowChecks \in BOOLEAN
    /\ item \in Initial(root)
    /\ input = <<>>
    /\ res = NoRes
    /\ step = "init"
    /\ prev = item
    /\ delta = NoVal
    /\ applied = NoApply

\* Faulty enter: a successfully parsed delta is applied at once.
EnterEffectEager(self, out) ==
    IF out.kind = "ok" THEN ValueApply(self, out.val).v ELSE self

\* enter takes &self: the value after the call is the value before it.
EnterEffect(self, out) == self

\* The caller hands a command string to the closure of updater_for.
Enter(cmd) ==
    /\ ~Aborted
    /\ input' = cmd
    /\ res' = UpdaterFor(item, Label(root), cmd)
    /\ item' = EnterEffect(item, res')
    /\ prev' = item
    /\ step' = "enter"
    /\ delta' = NoVal
    /\ applied' = NoApply
    /\ UNCHANGED <<root, overflowChecks>>

\* item.apply(updater): the value is replaced unless the call panicked.
DoApply(updater, how) ==
    LET r == ValueApply(item, updater)
    IN /\ item' = r.v
       /\ applied' = r.res
       /\ delta' = updater
       /\ prev' = item
       /\ step' = how
       /\ res' = NoRes
       /\ UNCHANGED <<root, overflowChecks>>

\* The caller applies the delta the last enter produced.
Apply ==
    /\ ~Aborted
    /\ res.kind = "ok"
    /\ DoApply(res.val, "apply")
    /\ UNCHANGED input

\* The caller applies a delta it built itself.
ApplyDirect(updater) ==
    /\ ~Aborted
    /\ DoApply(updater, "direct")
    /\ input' = <<>>

\* The caller assigns a field of the struct directly (payload.bar = -100.0).
SetField(field, n) ==
    /\ ~Aborted
    /\ root = "foo"
    /\ item' = [item EXCEPT ![field] = n]
    /\ prev' = item
    /\ step' = "set"
    /\ input' = <<>>
    /\ res' = NoRes
    /\ delta' = NoVal
    /\ applied' = NoApply
    /\ UNCHANGED <<root, overflowChecks>>

Next ==
    \/ \E cmd \in Commands(root) : Enter(cmd)
    \/ Apply
    \/ \E updater \in DirectDeltas(root) : ApplyDirect(updater)
    \/ \E field \in {"foo", "bar"} : SetField(field, -100)

Spec == Init /\ [][Next]_vars

----------------------------------------------------------------------------
(* Helpers of the properties *)

ArrayRoots == {"arr", "arr0", "nested", "arrfoo"}

\* Index tokens: numbers in and out of range, and tokens that are no usize.
IndexTokens ==
    {FmtNat(i) : i \in 0..(ArrLen + 1)}
    \cup {<<"x">>, <<"-", "1">>, FmtNat(UsizeModulus + 5)}

\* The usize a token denotes, or -1 when it denotes none.
TokenValue(tok) ==
    IF /\ Len(tok) > 0
       /\ \A i \in 1..Len(tok) : IsDigit(tok[i])
       /\ DecValue(tok, 0, Len(tok)) < UsizeModulus
    THEN DecValue(tok, 0, Len(tok))
    ELSE -1

\* The failure describes the valid index range, in its message or in its hint.
RangeDescribed(out) == out.msg.m = "Index too big" \/ out.hint.m = "arr index"

\* The smallest element of a non-empty set of numbers.
Min(S) == CHOOSE i \in S : \A j \in S : i <= j

----------------------------------------------------------------------------
(* C1: round trip through enter and apply on arrays *)

\* C1: for an array of scalars (flat or nested), every leaf path p and every
\* value x, the command for p and x parses, consuming the whole command, and
\* applying the parsed delta sets the leaf at p to x, returns success and
\* leaves every other leaf as it was.
C1_RoundTrip ==
    root \in {"arr", "nested"} =>
        \A p \in Paths(prev), x \in Xs :
            input = CommandFor(Label(root), prev, p, x) =>
                /\ step = "enter" => res.kind = "ok" /\ res.pos = Len(input)
                /\ step = "apply" =>
                      /\ applied = ApplyOk
                      /\ Paths(item) = Paths(prev)
                      /\ Get(item, p) = Num(x)
                      /\ \A q \in Paths(prev) \ {p} : Get(item, q) = Get(prev, q)

C1_Witness ==
    /\ root = "nested"
    /\ step = "apply"
    /\ input = CommandFor(kArr, prev, <<1, 0>>, 7)
    /\ Get(prev, <<1, 0>>) = Num(21)
    /\ Get(item, <<1, 0>>) = Num(7)
    /\ Get(item, <<0, 1>>) = Num(7)

----------------------------------------------------------------------------
(* C2: validation gating of struct fields *)

\* C2: applying a delta for a field of Foo runs the field's checks in
\* declaration order on (old value, new value); when a check rejects, apply
\* returns the first rejection and the struct is unchanged; when all accept,
\* the field holds the new value, the other field is unchanged and apply
\* returns success.  In particular Foo(95) on foo=100 succeeds, Foo(65) on
\* foo=95 is rejected as too large, and Bar(-99) on bar=-100 passes
\* ten_percent and is rejected by positive.
C2_ValidationGating ==
    (root = "foo" /\ step \in {"apply", "direct"}) =>
        LET f      == delta.field
            checks == FieldChecks(f)
            bad    == {i \in 1..Len(checks) : RunCheck(checks[i], prev[f], delta.n).kind = "err"}
        IN /\ bad = {} => applied = ApplyOk /\ item = [prev EXCEPT ![f] = delta.n]
           /\ bad # {} => /\ applied = RunCheck(checks[Min(bad)], prev[f], delta.n)
                          /\ item = prev
           /\ (prev.foo = 100 /\ delta = Field("foo", 95)) =>
                  applied = ApplyOk /\ item.foo = 95 /\ item.bar = prev.bar
           /\ (prev.foo = 95 /\ delta = Field("foo", 65)) =>
                  applied.kind = "err" /\ applied.msg.m = "too large" /\ item = prev
           /\ (prev.bar = -100 /\ delta = Field("bar", -99)) =>
                  applied = ApplyErr([m |-> "must be positive"]) /\ item = prev

C2_Witness ==
    /\ root = "foo"
    /\ step = "direct"
    /\ prev = Foo(95, -100)
    /\ delta = Field("bar", -99)
    /\ applied.kind = "err"
    /\ item = Foo(95, -100)

----------------------------------------------------------------------------
(* C3: index bounds *)

\* C3: for an array of N scalars and a command "arr <tok> 7", enter fails at
\* the selector with a failure that describes the valid range exactly when
\* tok is no usize or denotes an index >= N, and otherwise goes on to the
\* element's own enter.
C3_IndexBounds ==
    (root \in {"arr", "arr0"} /\ step = "enter") =>
        \A tok \in IndexTokens :
            input = Words(<<kArr, tok, FmtInt(7)>>) =>
                LET N   == Len(item.elems)
                    bad == TokenValue(tok) = -1 \/ TokenValue(tok) >= N
                IN /\ bad <=> (res.kind = "fail" /\ res.depth = 1 /\ RangeDescribed(res))
                   /\ ~bad => (res.kind = "ok" /\ res.depth = 2 /\ res.val.key = TokenValue(tok))

----------------------------------------------------------------------------
(* C4: apply of a directly built delta whose index is out of range *)

\* C4: applying a delta (index, child) with index >= N to an array of size N
\* returns a rejection and leaves the array unchanged.
C4_DefensiveApply ==
    (root \in ArrayRoots /\ step = "direct" /\ delta.key >= Len(prev.elems)) =>
        applied.kind = "err" /\ item = prev

----------------------------------------------------------------------------
(* C5: optional toggling *)

\* The first whitespace-delimited token of a command.
FirstToken(s) == SubSeq(s, 1, TokenRun(s, 0))

\* What C5 says of every input but those whose first token is neither some nor none.
OptionToggles ==
    /\ step = "enter" =>
          /\ \A x \in Xs : input = Words(<<kSome, FmtInt(x)>>) =>
                 res.kind = "ok" /\ res.val = Some(x)
          /\ input = kNone => res.kind = "ok" /\ res.val = None
    /\ step = "apply" =>
          /\ \A x \in Xs : input = Words(<<kSome, FmtInt(x)>>) => item = Some(x)
          /\ input = kNone => item = None
    /\ step \in {"apply", "direct"} => applied = ApplyOk /\ item = delta

\* C5 as stated: enter on `some <value>` yields Some(value) and apply sets the
\* optional to it, enter on `none` yields None and apply sets the optional to
\* None, enter on an input whose first token is neither fails, and apply
\* always succeeds with a result that does not depend on the previous state.
C5_OptionalToggling_Original ==
    root = "opt" =>
        /\ OptionToggles
        /\ (step = "enter" /\ FirstToken(input) \notin {kSome, kNone}) => res.kind = "fail"

\* C5 amended: as stated, but enter is only sure to fail on an input that
\* begins with neither the text `some` nor the text `none`.
C5_OptionalToggling ==
    root = "opt" =>
        /\ OptionToggles
        /\ (step = "enter" /\ ~StartsWith(input, 0, kSome) /\ ~StartsWith(input, 0, kNone)) =>
               res.kind = "fail"

C5_Witness ==
    /\ root = "opt"
    /\ step = "apply"
    /\ input = kNone
    /\ prev = Some(-42)
    /\ item = None

----------------------------------------------------------------------------
(* C6: key lookup *)

\* C6: for a map with keys K, a command whose selector token is the display
\* name of a key k parses to the delta (k, child) and applying it changes the
\* entry of k only; a selector token that is no key's display name makes
\* enter fail with a message that lists at most 100 display names of keys.
C6_KeyLookup ==
    root \in {"map", "bigmap"} =>
        LET keys == DOMAIN prev.entries
        IN /\ \A k \in keys, x \in Xs :
                  input = Words(<<kMap, KeyName(k), FmtInt(x)>>) =>
                      /\ step = "enter" => res.kind = "ok" /\ res.val = Key(k, Num(x))
                      /\ step = "apply" =>
                            /\ item.entries[k] = Num(x)
                            /\ \A j \in keys \ {k} : item.entries[j] = prev.entries[j]
           /\ (/\ step = "enter"
               /\ StartsWith(input, 0, kMap \o SP)
               /\ \A k \in keys : SubSeq(input, 5, 4 + TokenRun(input, 4)) # KeyName(k)) =>
                  /\ res.kind = "fail"
                  /\ res.msg.m = "key"
                  /\ Len(res.msg.candidates) <= MaxCandidates
                  /\ \A i \in 1..Len(res.msg.candidates) :
                         \E k \in keys : res.msg.candidates[i] = KeyName(k)

C6_Witness ==
    /\ root = "bigmap"
    /\ step = "enter"
    /\ input = Words(<<kMap, KeyName(0), FmtInt(7)>>)
    /\ item.entries[BigKeys] = Num(7)
    /\ res.kind = "fail"
    /\ Len(res.msg.candidates) = MaxCandidates

----------------------------------------------------------------------------
(* C7: parsing is pure *)

\* C7: a call of the closure of updater_for leaves the value unchanged,
\* whether it succeeds or fails, and its outcome is the outcome of enter on
\* the value, the label and the command alone; the value changes only in an
\* apply step (or by the caller's own assignment).
C7_ParsingIsPure ==
    [][ /\ step' = "enter" =>
              /\ item' = item
              /\ res' = UpdaterFor(item', Label(root), input')
        /\ item' # item => step' \in {"apply", "direct", "set"} ]_vars

C7_Witness ==
    /\ step = "enter"
    /\ root = "nested"
    /\ res.kind = "ok"
    /\ item \notin Initial(root)
    /\ prev = item

----------------------------------------------------------------------------
(* C8: failure of an out-of-range index *)

\* C8: when the index of "arr<spaces><i> 7" is >= N, the failure is anchored
\* where the index token begins (after the whitespace that follows the
\* label), its message states the valid range, and the element's enter is
\* not invoked.
C8_OutOfRangeAnchor ==
    (root \in {"arr", "arr0"} /\ step = "enter") =>
        \A n \in 1..2, i \in 0..(ArrLen + 1) :
            (input = kArr \o [j \in 1..n |-> " "] \o FmtNat(i) \o SP \o FmtInt(7)
                /\ i >= Len(item.elems)) =>
                    /\ res.kind = "fail"
                    /\ res.msg = [m |-> "Index too big", lo |-> 0, hi |-> Len(item.elems)]
                    /\ res.depth = 1
                    /\ res.pos = Len(kArr) + n

----------------------------------------------------------------------------
(* C9: validation failures pass through containers *)

\* The element of a container that a delta selects.
Selected(v, d) == IF v.kind = "arr" THEN v.elems[d.key + 1] ELSE v.entries[d.key]

\* Container v with the element a delta selects replaced by e.
Replaced(v, d, e) ==
    IF v.kind = "arr"
    THEN Arr([v.elems EXCEPT ![d.key + 1] = e])
    ELSE Map([v.entries EXCEPT ![d.key] = e])

\* C9: for an array or map of checked structs and a delta with a valid
\* selector, apply returns what the selected element's apply returns; on a
\* rejection the container is unchanged, on success only the selected
\* element changes.
C9_FailurePropagates ==
    (/\ root \in {"arrfoo", "mapfoo"}
     /\ step \in {"apply", "direct"}
     /\ (root = "arrfoo" => delta.key < Len(prev.elems))) =>
        LET old == Selected(prev, delta)
            f   == delta.d.field
            rejected == \E c \in 1..Len(FieldChecks(f)) :
                            RunCheck(FieldChecks(f)[c], old[f], delta.d.n).kind = "err"
        IN /\ applied = StructApply(old, delta.d).res
           /\ rejected => applied.kind = "err" /\ item = prev
           /\ ~rejected => /\ applied = ApplyOk
                           /\ item = Replaced(prev, delta, [old EXCEPT ![f] = delta.d.n])

C9_Witness ==
    /\ root = "arrfoo"
    /\ step = "direct"
    /\ delta = Ix(1, Field("bar", -99))
    /\ applied = ApplyErr([m |-> "must be positive"])
    /\ item = prev
    /\ item.elems[1].foo = 95

----------------------------------------------------------------------------
(* C10: the index hint for every array size *)

\* C10: for every array size, N = 0 included, enter returns an ordinary
\* parse outcome, the upper bound of the index hint is N - 1 without
\* wrapping, and for N = 0 every index is rejected as out of range.
C10_NoIndexUnderflow ==
    (root \in ArrayRoots /\ step = "enter") =>
        /\ res.kind \in {"ok", "fail"}
        /\ res.hint.m = "arr index" /\ res.depth = 1 => res.hint.hi = Len(item.elems) - 1
        /\ \A tok \in IndexTokens :
               (/\ Len(item.elems) = 0
                /\ TokenValue(tok) # -1
                /\ input = Words(<<kArr, tok, FmtInt(7)>>)) =>
                    res.kind = "fail" /\ res.msg.m = "Index too big"

====
